---- MODULE Spec2Model ----
(***************************************************************************)
(* Model of scansboms.py: main() launches one scan_worker thread per SBOM  *)
(* file, throttled by a counting semaphore; every worker parses its file   *)
(* name, submits the file, polls the scan status and finally releases the  *)
(* semaphore and updates the shared progress counter under a lock.         *)
(***************************************************************************)
EXTENDS Integers, Sequences, FiniteSets, TLC

\* ---- bounds of the model ----
MaxFiles == 2      \* at most this many *.xml files in the directory
MaxGate == 2       \* the semaphore is created with 1..MaxGate slots
MaxPolls == 2      \* at most this many non-terminal status checks per worker

Workers == 1..MaxFiles

\* File stems (name without directory and ".xml"), as character sequences.
FileNames ==
    { <<"a", "_", "b", "_", "c">>,      \* app_stage_id
      <<"a", "b">>,                     \* fewer than three parts
      <<"_", "b", "_", "c">> }          \* three parts, empty application name

\* ---- parse_filename ----
UnderscoreAt(s) == { i \in 1..Len(s) : s[i] = "_" }

SetMax(S) == CHOOSE m \in S : \A x \in S : x <= m

\* name_without_ext.rsplit('_', 2): at most two splits, taken from the right
rsplit2(s) ==
    LET U == UnderscoreAt(s) IN
    IF U = {} THEN << s >>
    ELSE LET p2 == SetMax(U)
             U1 == U \ {p2} IN
         IF U1 = {} THEN << SubSeq(s, 1, p2 - 1), SubSeq(s, p2 + 1, Len(s)) >>
         ELSE LET p1 == SetMax(U1) IN
              << SubSeq(s, 1, p1 - 1), SubSeq(s, p1 + 1, p2 - 1),
                 SubSeq(s, p2 + 1, Len(s)) >>

NoneTriple == << <<>>, <<>>, <<>> >>

\* (app_name, stage, app_id), or (None, None, None) modelled as three empty strings
parse_filename(s) ==
    LET parts == rsplit2(s) IN
    IF Len(parts) # 3 THEN NoneTriple ELSE parts

\* all([app_name, stage, app_id]): every part is truthy (non-empty)
AllTruthy(t) == \A i \in 1..3 : t[i] # <<>>

\* ---- submit_sbom_scan ----
NoUrl == 0    \* None or an empty statusUrl: both are falsy in "if not status_url"

\* What can happen to a submission of worker w.  The server names the scan of
\* worker w by the status url w.
SubmitResponses(w) ==
    { [kind |-> k, statusUrl |-> NoUrl] :
        k \in {"ioerror", "httperror", "neterror", "other2xx", "accepted202", "fault"} }
    \cup { [kind |-> "accepted202", statusUrl |-> w] }

\* the value returned by submit_sbom_scan, or "RAISE" for an exception that
\* none of its except clauses catches
submit_sbom_scan(resp) ==
    CASE resp.kind = "ioerror"     -> [raised |-> FALSE, url |-> NoUrl]
      [] resp.kind = "httperror"   -> [raised |-> FALSE, url |-> NoUrl]
      [] resp.kind = "neterror"    -> [raised |-> FALSE, url |-> NoUrl]
      [] resp.kind = "other2xx"    -> [raised |-> FALSE, url |-> NoUrl]
      [] resp.kind = "accepted202" -> [raised |-> FALSE, url |-> resp.statusUrl]
      [] OTHER                     -> [raised |-> TRUE,  url |-> NoUrl]

\* ---- check_scan_status ----
StatusResponses ==
    { [exc |-> "none", isError |-> e, reportHtmlUrl |-> r] : e, r \in BOOLEAN }
    \cup { [exc |-> x, isError |-> FALSE, reportHtmlUrl |-> FALSE] :
             x \in {"request", "other"} }

\* variant: the isError test is missing
check_scan_status_NoErrorTest(resp) ==
    IF resp.exc = "request" THEN "FALSE"
    ELSE IF resp.exc = "other" THEN "RAISE"
    ELSE IF resp.reportHtmlUrl THEN "TRUE"
    ELSE "FALSE"

\* variant: the except clause for RequestException is missing
check_scan_status_NoExcept(resp) ==
    IF resp.exc = "request" THEN "RAISE"
    ELSE IF resp.exc = "other" THEN "RAISE"
    ELSE IF resp.isError THEN "TRUE"
    ELSE IF resp.reportHtmlUrl THEN "TRUE"
    ELSE "FALSE"

\* "TRUE" (scan complete), "FALSE" (keep polling) or "RAISE"
check_scan_status(resp) ==
    IF resp.exc = "request" THEN "FALSE"
    ELSE IF resp.exc = "other" THEN "RAISE"
    ELSE IF resp.isError THEN "TRUE"
    ELSE IF resp.reportHtmlUrl THEN "TRUE"
    ELSE "FALSE"

\* the branch of check_scan_status that a response takes
StatusResult(resp) ==
    IF resp.exc = "request" THEN "TransientFailure"
    ELSE IF resp.exc = "other" THEN "Fault"
    ELSE IF resp.isError THEN "CompletedError"
    ELSE IF resp.reportHtmlUrl THEN "CompletedSuccess"
    ELSE "InProgress"

VARIABLES
    sbom_files,         \* the files found by glob, a sequence of file stems
    total_files,        \* len(sbom_files)
    maxConcurrency,     \* the initial value of the semaphore
    semaphore,          \* semaphore._value, the number of free slots
    lock,               \* counter_lock: 0 when free, else the worker holding it
    processed_counter,  \* processed_counter[0]
    mainpc,             \* position of main()
    i,                  \* index of the file the first loop of main is at
    j,                  \* index of the thread the join loop of main is at
    threads,            \* number of threads appended to the list threads
    nAcquires,          \* calls of semaphore.acquire that have returned in main
    wpc,                \* position of each scan_worker
    status_url,         \* local status_url of each worker
    tmp,                \* value read by a worker in "processed_counter[0] += 1"
    current_count,      \* local current_count of each worker (0: unset)
    parseResult,        \* "ok" or "failed": the branch taken after parse_filename
    submitResult,       \* "Accepted", "Rejected" or "Fault": outcome of the submit call
    statusResult,       \* branch taken by the worker's latest check_scan_status call
    checked_url,        \* status url passed to the latest check_scan_status call
    nSubmits,           \* calls of submit_sbom_scan a worker made in its try block
    nSleeps,            \* calls of time.sleep a worker made in its try block
    nChecks,            \* calls of check_scan_status a worker made in its try block
    nInProgress,        \* those of its status checks that found the scan in progress
    nTransient,         \* those of its status checks that hit a transport error
    nReleases,          \* calls of semaphore.release per worker
    nIncs               \* increments of processed_counter per worker

vars == << sbom_files, total_files, maxConcurrency, semaphore, lock,
           processed_counter, mainpc, i, j, threads, nAcquires, wpc, status_url,
           tmp,
           current_count, parseResult, submitResult, statusResult, checked_url,
           nSubmits, nSleeps, nChecks,
           nInProgress, nTransient, nReleases, nIncs >>

mainVars == << mainpc, i, j, threads, nAcquires >>
inputVars == << sbom_files, total_files, maxConcurrency >>
resultVars == << parseResult, submitResult, statusResult >>
pollVars == << nSleeps, nChecks, nInProgress, nTransient, checked_url >>

\* variant: the semaphore is created with one slot too many
InitialSlots_OneMore(m) == m + 1

\* threading.Semaphore(MAX_CONCURRENT_SCANS): the initial number of free slots
InitialSlots(m) == m

Zero == [w \in Workers |-> 0]

Init ==
    /\ \E n \in 1..MaxFiles : sbom_files \in [1..n -> FileNames]
    /\ total_files = Len(sbom_files)
    /\ maxConcurrency \in 1..MaxGate
    /\ semaphore = InitialSlots(maxConcurrency)
    /\ lock = 0
    /\ processed_counter = 0
    /\ mainpc = "acquire"
    /\ i = 1
    /\ j = 1
    /\ threads = 0
    /\ nAcquires = 0
    /\ wpc = [w \in Workers |-> "unstarted"]
    /\ status_url = Zero
    /\ tmp = Zero
    /\ current_count = Zero
    /\ parseResult = [w \in Workers |-> "none"]
    /\ submitResult = [w \in Workers |-> "none"]
    /\ statusResult = [w \in Workers |-> "none"]
    /\ checked_url = Zero
    /\ nSubmits = Zero
    /\ nSleeps = Zero
    /\ nChecks = Zero
    /\ nInProgress = Zero
    /\ nTransient = Zero
    /\ nReleases = Zero
    /\ nIncs = Zero

\* ---- main ----

\* variant: acquire never blocks
SlotAvailable_NeverBlocks == TRUE

\* semaphore.acquire() returns only when the value is positive
SlotAvailable == semaphore > 0

\* semaphore.acquire() in the for loop: blocks while no slot is free
MainAcquire ==
    /\ mainpc = "acquire"
    /\ SlotAvailable
    /\ semaphore' = semaphore - 1
    /\ nAcquires' = nAcquires + 1
    /\ mainpc' = "start"
    /\ UNCHANGED << inputVars, lock, processed_counter, i, j, threads, wpc,
                    status_url, tmp, current_count, resultVars, pollVars, nSubmits,
                    nReleases, nIncs >>

\* variant: main starts the thread without having acquired a slot for it
MainStart_WithoutSlot ==
    /\ mainpc \in {"acquire", "start"}
    /\ threads' = threads + 1
    /\ wpc' = [wpc EXCEPT ![i] = "parse"]
    /\ i' = i + 1
    /\ mainpc' = IF i = total_files THEN "join" ELSE "acquire"
    /\ UNCHANGED << inputVars, semaphore, lock, processed_counter, j, nAcquires,
                    status_url, tmp, current_count, resultVars, pollVars, nSubmits,
                    nReleases, nIncs >>

\* threads.append(thread); thread.start(); next iteration or leave the loop
MainStart ==
    /\ mainpc = "start"
    /\ threads' = threads + 1
    /\ wpc' = [wpc EXCEPT ![i] = "parse"]
    /\ i' = i + 1
    /\ mainpc' = IF i = total_files THEN "join" ELSE "acquire"
    /\ UNCHANGED << inputVars, semaphore, lock, processed_counter, j, nAcquires,
                    status_url, tmp, current_count, resultVars, pollVars, nSubmits,
                    nReleases, nIncs >>

\* variant: join returns without waiting for the thread
JoinGuard_NoWait(t) == TRUE

\* thread.join() of the j-th thread: returns when that thread has ended
JoinGuard(t) == wpc[t] = "exited"

MainJoin ==
    /\ mainpc = "join"
    /\ j <= threads
    /\ JoinGuard(j)
    /\ j' = j + 1
    /\ UNCHANGED << inputVars, semaphore, lock, processed_counter, mainpc, i,
                    threads, nAcquires, wpc, status_url, tmp, current_count, resultVars,
                    pollVars, nSubmits, nReleases, nIncs >>

\* print("All ... SBOM files have been processed.")
MainReport ==
    /\ mainpc = "join"
    /\ j > threads
    /\ mainpc' = "done"
    /\ UNCHANGED << inputVars, semaphore, lock, processed_counter, i, j,
                    threads, nAcquires, wpc, status_url, tmp, current_count, resultVars,
                    pollVars, nSubmits, nReleases, nIncs >>

\* ---- scan_worker ----

\* variant: the worker does not return on a failed parse and goes on to submit
AfterParseFailure_FallThrough == "submit"

\* where a worker goes when all([app_name, stage, app_id]) is false
AfterParseFailure == "p_lock"

\* app_name, stage, app_id = parse_filename(filepath); if not all([...])
ParseStep(w) ==
    /\ wpc[w] = "parse"
    /\ IF AllTruthy(parse_filename(sbom_files[w]))
       THEN /\ wpc' = [wpc EXCEPT ![w] = "submit"]
            /\ parseResult' = [parseResult EXCEPT ![w] = "ok"]
       ELSE /\ wpc' = [wpc EXCEPT ![w] = AfterParseFailure]
            /\ parseResult' = [parseResult EXCEPT ![w] = "failed"]
    /\ UNCHANGED << submitResult, statusResult >>
    /\ UNCHANGED << inputVars, mainVars, semaphore, lock, processed_counter,
                    status_url, tmp, current_count, pollVars, nSubmits,
                    nReleases, nIncs >>

\* "with lock:" entered at one of the three places that update the counter
AfterLock(pc) ==
    CASE pc = "p_lock" -> "p_write"
      [] pc = "s_lock" -> "s_write"
      [] pc = "f_lock" -> "f_write"

\* variant: the counter is updated without taking the lock
LockFree_NoLock == TRUE

\* lock.acquire() returns only when no thread holds the lock
LockFree == lock = 0

\* lock.acquire() of the with statement, and the load of processed_counter[0]
\* that starts "processed_counter[0] += 1" (no other thread stores to the
\* counter between the two, a store needs the lock)
LockStep(w) ==
    /\ wpc[w] \in {"p_lock", "s_lock", "f_lock"}
    /\ LockFree
    /\ lock' = w
    /\ tmp' = [tmp EXCEPT ![w] = processed_counter]
    /\ wpc' = [wpc EXCEPT ![w] = AfterLock(wpc[w])]
    /\ UNCHANGED << inputVars, mainVars, semaphore, processed_counter,
                    status_url, current_count, resultVars, pollVars, nSubmits,
                    nReleases, nIncs >>

\* variant: no finally block, an exception ends the thread at once
AfterRaise_NoFinally == "exited"

\* an exception raised inside the try block runs the finally block
AfterRaise == "release"

\* variant: the early returns are outside the try block and skip the release
AfterEarlyReturn_NoRelease == "f_lock"

\* where a worker goes after the "with lock:" block of its early return
\* (lines 146-148 and 153-155): "return" inside try runs the finally block
AfterEarlyReturn == "release"

\* variant: the early returns take the lock by hand and return without
\* giving it back; only the block in finally is a with statement
LockAfterWith_KeptOnReturn(w) == IF wpc[w] = "f_write" THEN 0 ELSE w

\* the holder of the lock once worker w has left its "with lock:" block:
\* the with statement releases the lock on every way out
LockAfterWith(w) == 0

\* processed_counter[0] += 1, the store; then leave the with block.
\* In the finally block, current_count = processed_counter[0] is read under
\* the same lock.
WriteStep(w) ==
    /\ wpc[w] \in {"p_write", "s_write", "f_write"}
    /\ processed_counter' = tmp[w] + 1
    /\ tmp' = [tmp EXCEPT ![w] = 0]
    /\ nIncs' = [nIncs EXCEPT ![w] = @ + 1]
    /\ lock' = LockAfterWith(w)
    /\ IF wpc[w] = "f_write"
       THEN /\ current_count' = [current_count EXCEPT ![w] = tmp[w] + 1]
            /\ wpc' = [wpc EXCEPT ![w] = "print"]
       ELSE /\ UNCHANGED current_count
            /\ wpc' = [wpc EXCEPT ![w] = AfterEarlyReturn]
    /\ UNCHANGED << inputVars, mainVars, semaphore, status_url, resultVars,
                    pollVars, nSubmits, nReleases >>

\* variant: the return after a rejected submission is missing
AfterRejected_FallThrough == "sleep"

\* where a worker goes when submit_sbom_scan returned a falsy status url
AfterRejected == "s_lock"

\* status_url = submit_sbom_scan(...); if not status_url: ...
SubmitStep(w) ==
    /\ wpc[w] = "submit"
    /\ \E resp \in SubmitResponses(w) :
         LET r == submit_sbom_scan(resp) IN
         /\ nSubmits' = [nSubmits EXCEPT ![w] = @ + 1]
         /\ IF r.raised
            THEN /\ wpc' = [wpc EXCEPT ![w] = AfterRaise]
                 /\ submitResult' = [submitResult EXCEPT ![w] = "Fault"]
                 /\ UNCHANGED status_url
            ELSE /\ status_url' = [status_url EXCEPT ![w] = r.url]
                 /\ IF r.url = NoUrl
                    THEN /\ wpc' = [wpc EXCEPT ![w] = AfterRejected]
                         /\ submitResult' = [submitResult EXCEPT ![w] = "Rejected"]
                    ELSE /\ wpc' = [wpc EXCEPT ![w] = "sleep"]
                         /\ submitResult' = [submitResult EXCEPT ![w] = "Accepted"]
    /\ UNCHANGED << inputVars, mainVars, semaphore, lock, processed_counter,
                    tmp, current_count, parseResult, statusResult, pollVars,
                    nReleases, nIncs >>

\* time.sleep(STATUS_CHECK_INTERVAL) at the head of the polling loop
SleepStep(w) ==
    /\ wpc[w] = "sleep"
    /\ nSleeps' = [nSleeps EXCEPT ![w] = @ + 1]
    /\ wpc' = [wpc EXCEPT ![w] = "check"]
    /\ UNCHANGED << inputVars, mainVars, semaphore, lock, processed_counter,
                    status_url, tmp, current_count, resultVars, nChecks,
                    nInProgress, nTransient, checked_url, nSubmits,
                    nReleases, nIncs >>

\* variant: the sleep is outside the polling loop
AfterCheck_NoSleepInLoop(r) ==
    IF r = "FALSE" THEN "check"
    ELSE IF r = "TRUE" THEN "release"
    ELSE "release"

\* variant: the loop gives up after a check that found the scan unfinished
AfterCheck_GiveUp(r) == "release"

\* where the polling loop goes after a status check that returned r:
\* "FALSE" loops back to the sleep, "TRUE" breaks and "RAISE" propagates, both
\* into the finally block
AfterCheck(r) ==
    IF r = "FALSE" THEN "sleep"
    ELSE IF r = "TRUE" THEN "release"
    ELSE AfterRaise

\* variant: the token is kept in one place shared by all workers, so a check
\* carries the token of the latest accepted submission of any worker
UrlForCheck_Shared(w) ==
    CHOOSE u \in { status_url[v] : v \in Workers } :
        \A x \in { status_url[v] : v \in Workers } : x <= u

\* the status url that worker w passes to check_scan_status: its own local
UrlForCheck(w) == status_url[w]

\* if check_scan_status(iq_server_url, auth, status_url): break
CheckStep(w) ==
    /\ wpc[w] = "check"
    /\ \E resp \in StatusResponses :
         LET r == check_scan_status(resp) IN
         /\ r = "FALSE" => nChecks[w] < MaxPolls
         /\ nChecks' = [nChecks EXCEPT ![w] = @ + 1]
         /\ checked_url' = [checked_url EXCEPT ![w] = UrlForCheck(w)]
         /\ statusResult' = [statusResult EXCEPT ![w] = StatusResult(resp)]
         /\ nInProgress' = [nInProgress EXCEPT ![w] =
                              IF StatusResult(resp) = "InProgress" THEN @ + 1 ELSE @]
         /\ nTransient' = [nTransient EXCEPT ![w] =
                              IF StatusResult(resp) = "TransientFailure" THEN @ + 1 ELSE @]
         /\ wpc' = [wpc EXCEPT ![w] = AfterCheck(r)]
    /\ UNCHANGED << inputVars, mainVars, semaphore, lock, processed_counter,
                    status_url, tmp, current_count, parseResult, submitResult,
                    nSleeps, nSubmits, nReleases, nIncs >>

\* finally: semaphore.release().  The counts of the calls made in the try
\* block are dropped here: they describe a worker up to the end of that block.
ReleaseStep(w) ==
    /\ wpc[w] = "release"
    /\ semaphore' = semaphore + 1
    /\ nReleases' = [nReleases EXCEPT ![w] = @ + 1]
    /\ wpc' = [wpc EXCEPT ![w] = "f_lock"]
    /\ nSubmits' = [nSubmits EXCEPT ![w] = 0]
    /\ nSleeps' = [nSleeps EXCEPT ![w] = 0]
    /\ nChecks' = [nChecks EXCEPT ![w] = 0]
    /\ nInProgress' = [nInProgress EXCEPT ![w] = 0]
    /\ nTransient' = [nTransient EXCEPT ![w] = 0]
    /\ UNCHANGED << inputVars, mainVars, lock, processed_counter, status_url,
                    tmp, current_count, resultVars, checked_url, nIncs >>

\* the two print calls that end the finally block; then the thread ends,
\* and its locals with it
PrintStep(w) ==
    /\ wpc[w] = "print"
    /\ wpc' = [wpc EXCEPT ![w] = "exited"]
    /\ status_url' = [status_url EXCEPT ![w] = NoUrl]
    /\ current_count' = [current_count EXCEPT ![w] = 0]
    /\ checked_url' = [checked_url EXCEPT ![w] = NoUrl]
    /\ UNCHANGED << inputVars, mainVars, semaphore, lock, processed_counter,
                    tmp, resultVars, nSubmits, nSleeps, nChecks, nInProgress,
                    nTransient, nReleases, nIncs >>

scan_worker(w) ==
    \/ ParseStep(w)
    \/ LockStep(w)
    \/ WriteStep(w)
    \/ SubmitStep(w)
    \/ SleepStep(w)
    \/ CheckStep(w)
    \/ ReleaseStep(w)
    \/ PrintStep(w)

main == MainAcquire \/ MainStart \/ MainJoin \/ MainReport

Next == main \/ \E w \in Workers : scan_worker(w)

Spec == Init /\ [][Next]_vars

TypeOK ==
    /\ semaphore \in Int
    /\ processed_counter \in Nat
    /\ lock \in {0} \cup Workers

\* ---- vocabulary of the properties ----

\* main has acquired a slot for worker w
Acquired(w) == w < i \/ (w = i /\ mainpc = "start")

\* workers between the acquire main made for them and their own release
Holders == { w \in Workers : Acquired(w) /\ nReleases[w] = 0 }

\* the worker is at the end of its try block, about to enter the finally block
AtEndOfTry(w) == wpc[w] = "release"

\* the worker has left the try block: it is in the finally block or has ended
Terminal(w) == wpc[w] \in {"release", "f_lock", "f_write", "print", "exited"}

\* the worker is in one of the two early-return blocks
EarlyReturn(w) == wpc[w] \in {"p_lock", "p_write", "s_lock", "s_write"}

\* the way a worker left the try block
Outcome(w) ==
    IF ~(Terminal(w) \/ EarlyReturn(w)) THEN "none"
    ELSE IF parseResult[w] = "failed" THEN "ParseSkipped"
    ELSE IF submitResult[w] = "Rejected" THEN "FailedAtSubmission"
    ELSE IF submitResult[w] = "Fault" THEN "Fault"
    ELSE IF statusResult[w] = "CompletedSuccess" THEN "Succeeded"
    ELSE IF statusResult[w] = "CompletedError" THEN "FailedAtCompletion"
    ELSE "Fault"

\* sleeps and status checks alternate, starting with a sleep
SleepBeforeEachCheck(w) ==
    nSleeps[w] = nChecks[w] + (IF wpc[w] = "check" THEN 1 ELSE 0)

\* ---- properties ----

\* C1: at every moment at most maxConcurrency workers are between the
\* acquire that main made for them and their own release.
C1_GateBound == Cardinality(Holders) <= maxConcurrency

\* C1 witness: the gate is full and main is blocked with files left to launch
C1_Witness ==
    /\ Cardinality(Holders) = maxConcurrency
    /\ mainpc = "acquire"
    /\ semaphore = 0
    /\ i <= total_files

\* C2: every descriptor causes exactly one increment of the progress counter,
\* whatever its outcome, so that after the join processed_counter equals
\* total_files.
C2_OneIncrementPerFile ==
    /\ \A w \in Workers : nIncs[w] <= 1
    /\ mainpc = "done" => processed_counter = total_files

\* C3: every started worker releases the semaphore exactly once on every exit
\* path (never twice, and once by the time it has ended), and after the join
\* the semaphore is back at maxConcurrency.
C3_ReleaseOnce ==
    /\ \A w \in Workers :
         /\ nReleases[w] <= 1
         /\ wpc[w] \in {"f_lock", "f_write", "print", "exited"} => nReleases[w] = 1
         /\ ~Terminal(w) => nReleases[w] = 0
    /\ mainpc = "done" => semaphore = maxConcurrency

\* C3 witness: a finished run in which a worker ended by an unexpected
\* exception and another one by an early return
C3_Witness ==
    /\ mainpc = "done"
    /\ \E w \in Workers : wpc[w] = "exited" /\ Outcome(w) = "Fault"
    /\ \E w \in Workers :
         wpc[w] = "exited" /\ Outcome(w) \in {"ParseSkipped", "FailedAtSubmission"}

\* C4: the number of free slots is between 0 and maxConcurrency and equals
\* maxConcurrency minus the number of workers holding a slot.
C4_FreeSlots ==
    /\ 0 <= semaphore
    /\ semaphore <= maxConcurrency
    /\ semaphore = maxConcurrency - Cardinality(Holders)

\* C4 witness: two slots, both taken, one of them by a running worker
C4_Witness ==
    /\ maxConcurrency = 2
    /\ semaphore = 0
    /\ \E w \in Holders : wpc[w] = "check"

\* C5: a worker increments the progress counter only after its release, and
\* at most once.
C5_ReleaseThenIncrement ==
    \A w \in Workers : nIncs[w] <= nReleases[w] /\ nIncs[w] <= 1

\* C6: a worker whose submission is rejected submitted once, never sleeps and
\* never checks the status: it is in its early return or in the finally block.
C6_RejectedIsFinal ==
    \A w \in Workers :
      submitResult[w] = "Rejected" =>
        /\ ~Terminal(w) \/ AtEndOfTry(w) => nSubmits[w] = 1
        /\ nSleeps[w] = 0
        /\ nChecks[w] = 0
        /\ statusResult[w] = "none"
        /\ Outcome(w) = "FailedAtSubmission"

\* C6 witness: a worker has ended after a rejected submission
C6_Witness ==
    \E w \in Workers : wpc[w] = "exited" /\ submitResult[w] = "Rejected"

\* C7: a worker whose checks found the scan in progress k times and then
\* completed has made k+1 checks and k+1 sleeps, one sleep before each check,
\* and is terminal with outcome Succeeded.
C7_PollCount ==
    \A w \in Workers :
      /\ SleepBeforeEachCheck(w)
      /\ (statusResult[w] = "CompletedSuccess" /\ nTransient[w] = 0) =>
           /\ AtEndOfTry(w) =>
                nChecks[w] = nInProgress[w] + 1 /\ nSleeps[w] = nInProgress[w] + 1
           /\ Terminal(w)
           /\ Outcome(w) = "Succeeded"

\* C7 witness: a worker has left the polling loop after MaxPolls checks in
\* progress and a successful one
C7_Witness ==
    \E w \in Workers :
      /\ AtEndOfTry(w)
      /\ statusResult[w] = "CompletedSuccess"
      /\ nTransient[w] = 0
      /\ nInProgress[w] = MaxPolls

\* C8: a worker whose status check reports an error of the scan stops polling
\* at that check, with outcome FailedAtCompletion; it releases its slot once
\* and is counted once.
C8_CompletedError ==
    \A w \in Workers :
      statusResult[w] = "CompletedError" =>
        /\ Terminal(w)
        /\ Outcome(w) = "FailedAtCompletion"
        /\ Outcome(w) \notin {"FailedAtSubmission", "Succeeded"}
        /\ AtEndOfTry(w) => nChecks[w] = nInProgress[w] + nTransient[w] + 1
        /\ wpc[w] \in {"print", "exited"} => nIncs[w] = 1 /\ nReleases[w] = 1

\* C8 witness: the run has ended and a worker's scan had completed with an error
C8_Witness ==
    /\ mainpc = "done"
    /\ \E w \in Workers : statusResult[w] = "CompletedError" /\ nIncs[w] = 1

\* C9: a status check that fails with a transport error leaves the worker in
\* the polling loop, at the sleep before the next check, holding its slot and
\* without touching the progress counter.
C9_TransientNotTerminal ==
    [][ \A w \in Workers :
          (nChecks'[w] = nChecks[w] + 1 /\ statusResult'[w] = "TransientFailure") =>
            /\ wpc'[w] = "sleep"
            /\ w \in Holders'
            /\ semaphore' = semaphore
            /\ processed_counter' = processed_counter
            /\ nIncs'[w] = 0 ]_vars

\* C9 witness: MaxPolls transport errors in a row, the worker still polling
C9_Witness ==
    \E w \in Workers :
      /\ nTransient[w] = MaxPolls
      /\ nChecks[w] = MaxPolls
      /\ wpc[w] = "check"
      /\ w \in Holders

\* C10: the final report is printed only when every launched worker has ended.
C10_ReportAfterJoin ==
    mainpc = "done" => \A w \in 1..total_files : wpc[w] = "exited"

\* C10 witness: the report of a run with MaxFiles files
C10_Witness == mainpc = "done" /\ total_files = MaxFiles /\ threads = MaxFiles

\* ---- fair scheduling ----

\* Every thread that can take a step eventually takes one: main and each
\* worker are operating-system threads.  A status check may answer "not done"
\* at most MaxPolls times (CheckStep), so under this specification every
\* accepted scan eventually gets a final answer.
Fairness ==
    /\ WF_vars(main)
    /\ \A w \in Workers : WF_vars(scan_worker(w))

FairSpec == Spec /\ Fairness

\* every file of the input has been launched and its worker has ended
AllEnded == \A w \in 1..total_files : wpc[w] = "exited"

\* C11: under fair scheduling, and with every accepted scan eventually
\* getting a final status, every file is launched and its worker ends, and
\* main prints its final report; a worker whose submission is accepted and
\* whose first status check reports success ends as Succeeded.
C11_RunTerminates ==
    /\ <>(mainpc = "done" /\ AllEnded /\ threads = total_files)
    /\ [](\A w \in Workers :
            (AtEndOfTry(w) /\ submitResult[w] = "Accepted" /\ nChecks[w] = 1
               /\ statusResult[w] = "CompletedSuccess") => Outcome(w) = "Succeeded")

\* C11 witness: a finished run with more files than slots, all succeeded
C11_Witness ==
    /\ mainpc = "done"
    /\ total_files > maxConcurrency
    /\ \A w \in 1..total_files : Outcome(w) = "Succeeded"

\* ---- the progress counter ----

RECURSIVE SumTo(_, _)
\* f[1] + ... + f[n]
SumTo(f, n) == IF n = 0 THEN 0 ELSE f[n] + SumTo(f, n - 1)

\* the number of "processed_counter[0] += 1" executed so far
TotalIncs == SumTo(nIncs, MaxFiles)

\* worker w has just read its current_count in the finally block
ReadsCount(w) == wpc[w] = "f_write" /\ wpc'[w] = "print"

\* C12: no increment of the progress counter is lost (its value is the number
\* of increments executed so far), it never decreases, and every current_count
\* a worker reads in its finally block is larger than the counter was before,
\* hence larger than every current_count read earlier: no two workers read
\* the same value.
C12_CounterAtomic ==
    /\ [](/\ processed_counter = TotalIncs
          /\ \A w \in Workers : current_count[w] <= processed_counter
          /\ \A v, w \in Workers :
               (v # w /\ current_count[v] # 0 /\ current_count[w] # 0)
                  => current_count[v] # current_count[w])
    /\ [][ /\ processed_counter' >= processed_counter
           /\ \A w \in Workers :
                ReadsCount(w) =>
                  /\ current_count'[w] = processed_counter'
                  /\ current_count'[w] > processed_counter ]_vars

\* C12 witness: two workers are at their prints with their counts read, a
\* third increment having come from an early return
C12_Witness ==
    \E v, w \in Workers :
      /\ v # w
      /\ wpc[v] = "print" /\ wpc[w] = "print"
      /\ current_count[v] # 0 /\ current_count[w] # 0
      /\ processed_counter >= 3

\* ---- failures of one worker ----

\* the worker ended its try block in one of the failures
Failed(w) ==
    Outcome(w) \in {"ParseSkipped", "FailedAtSubmission", "FailedAtCompletion", "Fault"}

\* everything that belongs to worker v alone
LocalState(v) ==
    << wpc[v], status_url[v], tmp[v], current_count[v], parseResult[v],
       submitResult[v], statusResult[v], checked_url[v], nSubmits[v],
       nSleeps[v], nChecks[v], nInProgress[v], nTransient[v], nReleases[v],
       nIncs[v] >>

\* this step is a step of the running worker w
StepOf(w) == wpc[w] # "unstarted" /\ wpc'[w] # wpc[w]

\* C13: a step of a worker, failing or not, changes neither the position of
\* main nor anything that belongs to another worker; a worker that failed and
\* ended has given its slot back; and under fair scheduling a failure of any
\* worker is followed by the launch of all files and by main's final report.
C13_FailuresAbsorbed ==
    /\ [][ \A w \in Workers :
             StepOf(w) =>
               /\ mainVars' = mainVars
               /\ \A v \in Workers \ {w} : LocalState(v)' = LocalState(v) ]_vars
    /\ [](\A w \in Workers : (Failed(w) /\ wpc[w] = "exited") => w \notin Holders)
    /\ \A w \in Workers :
         Failed(w) ~> (mainpc = "done" /\ threads = total_files /\ AllEnded)

\* C13 witness: one slot; the first worker failed by an exception, the second
\* one was launched after it and succeeded, and main has reported
C13_Witness ==
    /\ mainpc = "done"
    /\ maxConcurrency = 1
    /\ total_files = 2
    /\ Outcome(1) = "Fault"
    /\ Outcome(2) = "Succeeded"

\* ---- a server that never finishes a scan ----

\* The polling loop once the server has answered "not done" MaxPolls times
\* and goes on doing so: one more check_scan_status that returns False and the
\* time.sleep that follows it.  The worker is back before its next check; the
\* counts of calls stay at their bound.
HungPoll(w) ==
    /\ wpc[w] = "check"
    /\ nChecks[w] = MaxPolls
    /\ \E resp \in StatusResponses :
         /\ check_scan_status(resp) = "FALSE"
         /\ AfterCheck(check_scan_status(resp)) = "sleep"
         /\ statusResult' = [statusResult EXCEPT ![w] = StatusResult(resp)]
         /\ checked_url' = [checked_url EXCEPT ![w] = UrlForCheck(w)]
    /\ UNCHANGED << inputVars, mainVars, semaphore, lock, processed_counter,
                    wpc, status_url, tmp, current_count, parseResult,
                    submitResult, nSubmits, nSleeps, nChecks, nInProgress,
                    nTransient, nReleases, nIncs >>

NextHung == Next \/ \E w \in Workers : HungPoll(w)

\* the program with a server that may leave scans unfinished for ever
SpecHung == Init /\ [][NextHung]_vars

\* the worker is in its polling loop
Polling(w) == wpc[w] \in {"sleep", "check"}

PollingWorkers == { w \in Workers : Polling(w) }

\* C14: the polling loop has no timeout.  A worker leaves it only by a status
\* check that reports a completed scan or raises; while it polls it keeps its
\* slot, has not touched the progress counter, and main has not printed its
\* final report; and while maxConcurrency workers poll, main cannot pass
\* acquire() and the next file is not launched.
C14_NoTimeout ==
    /\ [][ \A w \in Workers :
             (Polling(w) /\ ~Polling(w)') =>
               /\ wpc[w] = "check"
               /\ wpc'[w] = "release"
               /\ statusResult'[w] \in {"CompletedSuccess", "CompletedError", "Fault"} ]_vars
    /\ [](\A w \in Workers :
            Polling(w) =>
              /\ w \in Holders
              /\ nReleases[w] = 0
              /\ nIncs[w] = 0
              /\ mainpc # "done")
    /\ []((Cardinality(PollingWorkers) = maxConcurrency /\ mainpc = "acquire") =>
            /\ ~ENABLED MainAcquire
            /\ semaphore = 0
            /\ wpc[i] = "unstarted")

\* C14 witness: every slot is held by a worker that is polling after more
\* than MaxPolls unfinished answers (MaxPolls scans in progress and then a
\* transport error), and main waits in acquire() with a file left
C14_Witness ==
    /\ mainpc = "acquire"
    /\ i <= total_files
    /\ Cardinality(PollingWorkers) = maxConcurrency
    /\ \A w \in PollingWorkers :
         /\ wpc[w] = "check"
         /\ nInProgress[w] = MaxPolls
         /\ statusResult[w] = "TransientFailure"

\* ---- order of acquire and launch ----

\* the workers whose thread has been started
Started == { w \in Workers : wpc[w] # "unstarted" }

\* C15 as stated: at every state the number of workers launched equals the
\* number of acquire() calls that have returned in main.
C15_LaunchedEqualsAcquired == threads = nAcquires

\* C15 amended: the number of workers launched equals the number of acquires
\* made by main, except between an acquire() and the thread.start() that
\* follows it, where it is one less; workers are launched one at a time in
\* input order, each only when main holds a fresh slot for it; and only main
\* takes slots from the semaphore.
C15_AcquireBeforeLaunch ==
    /\ [](/\ nAcquires = threads + (IF mainpc = "start" THEN 1 ELSE 0)
          /\ Started = 1..threads
          /\ \A w \in Started : w <= nAcquires)
    /\ [][ /\ \A w \in Workers :
                (w \notin Started /\ w \in Started') =>
                  /\ mainpc = "start"
                  /\ w = threads + 1
                  /\ nAcquires = w
                  /\ threads' = w
                  /\ Started' = Started \cup {w}
           /\ semaphore' < semaphore =>
                /\ mainpc = "acquire"
                /\ nAcquires' = nAcquires + 1
                /\ wpc' = wpc ]_vars

\* C15 witness: main has acquired the slot of the second worker and has not
\* started it yet
C15_Witness ==
    /\ mainpc = "start"
    /\ threads = 1
    /\ nAcquires = 2
    /\ wpc[2] = "unstarted"

\* ---- a file whose name cannot be parsed ----

ParseFailed(w) == parseResult[w] = "failed"

\* C16: a worker whose filename cannot be parsed never calls submit_sbom_scan
\* or check_scan_status and never sleeps; it still releases the slot main
\* acquired for it, is counted as processed with outcome ParseSkipped, and
\* main can go on past it (start the next worker, join it).
C16_ParseSkipped ==
    \A w \in Workers :
        ParseFailed(w) =>
            /\ ~AllTruthy(parse_filename(sbom_files[w]))
            /\ wpc[w] \notin {"parse", "submit", "s_lock", "s_write", "sleep", "check"}
            /\ nSubmits[w] = 0 /\ nSleeps[w] = 0 /\ nChecks[w] = 0
            /\ submitResult[w] = "none" /\ statusResult[w] = "none"
            /\ status_url[w] = NoUrl /\ checked_url[w] = NoUrl
            /\ Outcome(w) = "ParseSkipped"
            /\ nReleases[w] <= 1
            /\ wpc[w] \in {"f_lock", "f_write", "print", "exited"} =>
                 /\ nReleases[w] = 1
                 /\ w \notin Holders
            /\ wpc[w] \in {"print", "exited"} => nIncs[w] >= 1
            /\ wpc[w] = "exited" =>
                 /\ (mainpc = "join" /\ j = w) => ENABLED MainJoin
                 /\ (mainpc = "acquire" /\ semaphore = 0) =>
                      \E v \in Holders : v # w

\* C16 witness: the run is over, the first file's name did not parse and its
\* worker has released and been counted, the second file was scanned
C16_Witness ==
    /\ mainpc = "done"
    /\ total_files = 2
    /\ ParseFailed(1) /\ wpc[1] = "exited" /\ nReleases[1] = 1 /\ nIncs[1] >= 1
    /\ Outcome(2) = "Succeeded"

\* ---- the status token ----

\* worker w makes a call of check_scan_status in this step
ChecksNow(w) == wpc[w] = "check" /\ nChecks'[w] = nChecks[w] + 1

\* C17: the status token a worker obtains from its accepted submission stays
\* as it is until the worker ends, and every check_scan_status call of a
\* worker carries the token returned by that worker's own submit (the server
\* hands worker w the token w), never another worker's and never a changed one.
C17_TokenUnmodified ==
    /\ [](\A w \in Workers :
            /\ status_url[w] # NoUrl => (status_url[w] = w /\ submitResult[w] = "Accepted")
            /\ checked_url[w] # NoUrl => (checked_url[w] = w /\ status_url[w] = w)
            /\ nChecks[w] > 0 => checked_url[w] = w
            /\ Polling(w) => status_url[w] = w)
    /\ [][\A w \in Workers :
            /\ status_url[w] # NoUrl =>
                 \/ status_url'[w] = status_url[w]
                 \/ wpc'[w] = "exited"
            /\ ChecksNow(w) =>
                 /\ checked_url'[w] = status_url[w]
                 /\ checked_url'[w] = w
                 /\ status_url'[w] = status_url[w]]_vars

\* C17 witness: two workers are polling at once, each has made a check, and
\* each check carried the worker's own token
C17_Witness ==
    /\ total_files = 2
    /\ nChecks[1] > 0 /\ nChecks[2] > 0
    /\ checked_url[1] = 1 /\ checked_url[2] = 2
    /\ status_url[1] = 1 /\ status_url[2] = 2

\* ---- bounds of the progress counter ----

\* C18: in every reachable state 0 <= processed_counter <= total_files, so no
\* progress line reports a completed count above the total.
C18_CounterBounded ==
    /\ 0 <= processed_counter
    /\ processed_counter <= total_files
    /\ \A w \in Workers : current_count[w] <= total_files

\* ---- worker threads alive at once ----

\* threads started and not yet ended
LiveThreads == { w \in Workers : wpc[w] \notin {"unstarted", "exited"} }

\* live threads that have not yet given their slot back
LiveBeforeRelease == { w \in LiveThreads : nReleases[w] = 0 }

\* live threads in the part of the cleanup block that follows the release
LiveAfterRelease == { w \in LiveThreads : nReleases[w] > 0 }

\* C19 as stated: at every instant the number of worker threads started and
\* not yet exited, those in cleanup after their release included, is at most
\* maxConcurrency.
C19_LiveThreadsBounded == Cardinality(LiveThreads) <= maxConcurrency

\* C19 amended: at every instant the number of worker threads started that
\* have not yet released their slot is at most maxConcurrency; threads that
\* have released and are still counting and printing are not bounded by the
\* gate, only by the number of files.
C19_LiveBeforeReleaseBounded ==
    /\ Cardinality(LiveBeforeRelease) <= maxConcurrency
    /\ Cardinality(LiveBeforeRelease) <= maxConcurrency - semaphore
    /\ LiveBeforeRelease \subseteq Holders
    /\ \A w \in LiveAfterRelease : wpc[w] \in {"f_lock", "f_write", "print"}
    /\ Cardinality(LiveThreads) <= total_files

\* C19 witness: the gate is full of threads that hold a slot while one more
\* thread, past its release, is still in the cleanup block
C19_Witness ==
    /\ Cardinality(LiveBeforeRelease) = maxConcurrency
    /\ LiveAfterRelease # {}
    /\ Cardinality(LiveThreads) > maxConcurrency

\* ---- no deadlock on the gate or on the counter lock ----

\* worker w is blocked in lock.acquire()
WaitsForLock(w) == wpc[w] \in {"p_lock", "s_lock", "f_lock"} /\ lock # 0

\* main is blocked in semaphore.acquire()
MainBlocked == mainpc = "acquire" /\ ~ENABLED MainAcquire

\* C20: the run cannot deadlock on the gate or on the counter lock: when main
\* is blocked in semaphore.acquire() some live worker holds a slot and can
\* take a step towards releasing it; main is not blocked while a slot is free;
\* a worker waiting for the counter lock is not its holder, and the holder is
\* inside its with block and can leave it; a live worker is blocked by nothing
\* but the counter lock, so never by the semaphore; and some step is possible
\* until main has printed the final report.
C20_NoDeadlock ==
    /\ MainBlocked =>
         /\ semaphore = 0
         /\ \E w \in Holders :
              /\ wpc[w] \notin {"unstarted", "exited"}
              /\ ENABLED scan_worker(w) \/ WaitsForLock(w)
    /\ (mainpc = "acquire" /\ semaphore > 0) => ENABLED MainAcquire
    /\ \A w \in Workers :
         /\ WaitsForLock(w) => lock # w
         /\ (wpc[w] \notin {"unstarted", "exited"} /\ ~ENABLED scan_worker(w)) =>
              WaitsForLock(w)
    /\ lock # 0 =>
         /\ wpc[lock] \in {"p_write", "s_write", "f_write"}
         /\ ENABLED WriteStep(lock)
    /\ mainpc # "done" => ENABLED Next

\* C20 witness: main is blocked in acquire() with every slot taken, and the
\* worker that holds the slot is inside a with block, holding the counter lock
C20_Witness ==
    /\ MainBlocked
    /\ i <= total_files
    /\ lock # 0
    /\ lock \in Holders
    /\ wpc[lock] \in {"p_write", "s_write"}

====
